---- MODULE Spec2Model ----
(***************************************************************************)
(* SafeQuanta-TLS: the connection-admission-and-relay engine of            *)
(* src/src/proxy.rs (ProxyServer::start, handle_connection, proxy_data),   *)
(* with the handshake entry points of src/src/tls.rs it calls and the      *)
(* process boundary of src/src/main.rs.                                    *)
(*                                                                         *)
(* One session is one task spawned by start (proxy.rs:56).  Its position   *)
(* pc[s] is the await it is suspended at:                                  *)
(*   "unspawned"  not accepted yet                                         *)
(*   "start"      spawned, handle_connection not polled yet                *)
(*   "waiting"    suspended in connection_limit.acquire()      (l. 85)     *)
(*   "tls_accept" suspended in tls_manager.accept()            (l. 88)     *)
(*   "tcp_connect" suspended in TcpStream::connect(target)     (l. 91)     *)
(*   "tls_tcp"    in tls_manager.connect: TcpStream::connect (tls.rs:71)   *)
(*   "tls_hs"     in tls_manager.connect: TLS handshake    (tls.rs:74-76)  *)
(*   "relay"      suspended in select! over the two copies (l. 113-124)    *)
(*   "done"       the task has ended (returned or was dropped)             *)
(***************************************************************************)
EXTENDS Naturals, Sequences, FiniteSets

\* ----------------------------------------------------------------- bounds
NumSessions == 3        \* connections of the largest burst
MaxConnections == 2     \* config.max_connections
MaxBytes == 3           \* bytes the peers of one session send
BufSize == 2            \* the transfer buffer (8192 in the code), scaled down
NumPorts == 2           \* ports that non_pqc_port can name
NumKeys == 2            \* key pairs a key generation (or a key file) can give
NumCoins == 2           \* random coins an encapsulation can draw
MaxDataLen == 1         \* bytes of the data signed

Sessions == 1..NumSessions
Dirs == {"c2t", "t2c"}

\* What the outside offers in a run: so many connections, and so many bytes
\* sent by their peers, all sessions together.
\* Option<T>: None, Some(x)
None == <<>>
Some(x) == <<x>>

\* config.rs: enum FallbackStrategy, struct FallbackConfig
FallbackStrategy == {"Reject", "Redirect", "ClassicTls"}
Ports == 1..NumPorts
FallbackConfig ==
    [enabled : BOOLEAN, strategy : FallbackStrategy,
     non_pqc_port : {None} \cup {Some(p) : p \in Ports}]

\* The configuration the three larger workloads run with.
PlainFallback == [enabled |-> FALSE, strategy |-> "ClassicTls", non_pqc_port |-> None]

\* The peers and the configuration of a run: whether the clients offer the
\* post-quantum capability, and tls.fallback_config.
Workload(c, b, q, f) == [conns |-> c, bytes |-> b, peer_pqc |-> q, fallback |-> f]

Workloads ==
    { Workload(NumSessions, 0, TRUE, PlainFallback),     \* a burst above the limit
      Workload(MaxConnections, 1, TRUE, PlainFallback),  \* concurrent sessions, some data
      Workload(1, MaxBytes, TRUE, PlainFallback) }       \* one session relaying data
    \cup                \* one session, of any peer under any fallback configuration
    { Workload(1, 0, q, f) : q \in BOOLEAN, f \in FallbackConfig }

VARIABLES
    load,              \* the workload of the run, one of Workloads
    listener,          \* start: "init", "listening", "returned"
    startResult,       \* what start returned: "none", "bind_error", "accept_error"
    accepted,          \* number of connections accepted (and tasks spawned)
    connection_limit,  \* the Semaphore: [permits, waiters, assigned]
    pc,                \* per session: its suspension point
    permit,            \* per session: handle_connection holds _permit
    waited,            \* per session: its acquire had to suspend
    sock,              \* per session: the sockets it holds open
    lastExit,          \* the latest end of a session task: which session, at
                       \* which await, with which result ("Ok", "Io" for an
                       \* Err, "Aborted"), which direction of the relay ended
                       \* and how, what was dropped, in order, whether the
                       \* session had waited for its permit, and how many
                       \* bytes each direction had read and had written
    relay,             \* per session and direction: the state of proxy_data
    sentBytes,         \* bytes the peers have sent so far
    metrics,           \* the observations the handshakes have recorded: how
                       \* many of each kind
    unit,              \* what runs: "server" (main.rs), or the component
                       \* whose operations are called directly
    providers,         \* the CryptoProvider values constructed
    shared,            \* per provider: what its key_exchange returned
    presented,         \* the signature bytes at hand, as returned by sign
                       \* or as altered on the way
    call               \* the latest call of sign, verify or decide, with
                       \* its arguments and result

unitVars == <<unit, providers, shared, presented, call>>

vars == <<load, listener, startResult, accepted, connection_limit, pc, permit,
          waited, sock, lastExit, relay, sentBytes, metrics, unitVars>>

\* ------------------------------------------------------------- helpers
Min(a, b) == IF a < b THEN a ELSE b

RECURSIVE Reverse(_)
Reverse(q) == IF q = <<>> THEN <<>> ELSE Append(Reverse(Tail(q)), Head(q))

Range(q) == {q[i] : i \in 1..Len(q)}

RECURSIVE Without(_, _)
Without(q, x) ==
    IF q = <<>> THEN <<>>
    ELSE IF Head(q) = x THEN Without(Tail(q), x)
    ELSE <<Head(q)>> \o Without(Tail(q), x)

IndexOf(q, x) == IF x \in Range(q) THEN CHOOSE i \in 1..Len(q) : q[i] = x ELSE 0

\* --------------------------------------------------------- the semaphore
\* (mutant) the semaphore is created with one permit too many
SemaphoreNewOffByOne(n) == [permits |-> n + 1, waiters |-> <<>>, assigned |-> {}]

\* Semaphore::new(config.max_connections)
SemaphoreNew(n) == [permits |-> n, waiters |-> <<>>, assigned |-> {}]

\* (mutant) the permit always goes back to the pool and no waiter is woken
ReleaseWakesNobody(sem) == [sem EXCEPT !.permits = @ + 1]

\* (mutant) the permit is forgotten instead of dropped
ReleaseForgotten(sem) == sem

\* Dropping a SemaphorePermit: the permit goes to the longest waiting acquire,
\* which is woken; with no waiter it goes back to the pool.
Release(sem) ==
    IF sem.waiters # <<>>
    THEN [sem EXCEPT !.waiters = Tail(@), !.assigned = @ \cup {Head(sem.waiters)}]
    ELSE [sem EXCEPT !.permits = @ + 1]

\* (mutant) a cancelled acquire keeps the permit that was assigned to it
DropAcquireLeaks(sem, s) ==
    [sem EXCEPT !.assigned = @ \ {s}, !.waiters = Without(@, s)]

\* Dropping a pending Acquire future: it leaves the queue, and a permit
\* already assigned to it is released again.
DropAcquire(sem, s) ==
    IF s \in sem.assigned
    THEN Release([sem EXCEPT !.assigned = @ \ {s}])
    ELSE [sem EXCEPT !.waiters = Without(@, s)]

\* ------------------------------------------------- what a session owns
\* The bindings the suspended task owns, in the order of their declaration in
\* handle_connection.  At "relay" the halves of the two TLS streams have been
\* moved into the proxy_data futures, which are declared after target_stream.
Frame(p) ==
    CASE p = "start"       -> <<"client">>
      [] p = "waiting"     -> <<"client", "acquire">>
      [] p = "tls_accept"  -> <<"permit", "client">>
      [] p = "tcp_connect" -> <<"permit", "client">>
      [] p = "tls_tcp"     -> <<"permit", "client", "target_stream">>
      [] p = "tls_hs"      -> <<"permit", "client", "target_stream", "target_tls">>
      [] p = "relay"       -> <<"permit", "target_stream", "client_to_target",
                                "target_to_client">>
      [] OTHER             -> <<>>

\* (mutant) the bindings are dropped in the order of their declaration, the
\* permit first
DropInDeclarationOrder(frame) == frame

\* Rust drops the live bindings of a frame in reverse order of declaration.
DropOrder(frame) == Reverse(frame)

\* The sockets a binding owns: a proxy_data future holds one half of each
\* TLS stream.
Owns(x) ==
    IF x \in {"client_to_target", "target_to_client"} THEN {"client", "target_tls"}
    ELSE {x}

Closed(sk, frame) == sk \ UNION {Owns(x) : x \in Range(frame)}

NoExit == [session |-> 0, at |-> "none", result |-> "none", ended |-> "none",
           how |-> "none", dropped |-> <<>>, waited |-> FALSE,
           read |-> [e \in Dirs |-> 0], written |-> [e \in Dirs |-> 0]]

IdleDir == [sent |-> <<>>, nread |-> 0, chunk |-> <<>>, off |-> 0,
            dst |-> <<>>, total |-> 0, st |-> "idle"]

\* (mutant) a copy loop that is cancelled writes out the rest of its chunk
DeliveredAfterDrain(r) == Len(r.dst) + (Len(r.chunk) - r.off)

\* What the destination of a direction has got when its proxy_data future is
\* dropped: the bytes written so far.  The future is not polled again, and
\* what is left of its chunk goes with its buffer.
Delivered(r) == Len(r.dst)

\* The relay of a task that ends: the locals of proxy_data and the halves of
\* the two streams are gone with the futures.
EndRelay(r) == [e \in Dirs |-> IdleDir]

\* The end of the task of session s at its current suspension point: every
\* live binding is dropped.  d is the direction of the relay that returned
\* (`how`), "none" when no direction did.
ExitSession(s, res, d, how) ==
    LET frame == Frame(pc[s]) IN
    /\ pc' = [pc EXCEPT ![s] = "done"]
    /\ lastExit' = [session |-> s, at |-> pc[s], result |-> res, ended |-> d,
                    how |-> how, dropped |-> DropOrder(frame),
                    waited |-> waited[s],
                    read |-> [e \in Dirs |-> relay[s][e].nread],
                    written |-> [e \in Dirs |-> Delivered(relay[s][e])]]
    /\ waited' = [waited EXCEPT ![s] = FALSE]
    /\ sock' = [sock EXCEPT ![s] = Closed(@, frame)]
    /\ permit' = [permit EXCEPT ![s] = FALSE]
    /\ relay' = [relay EXCEPT ![s] = EndRelay(@)]
    /\ connection_limit' =
          IF "permit" \in Range(frame) THEN Release(connection_limit)
          ELSE IF "acquire" \in Range(frame) THEN DropAcquire(connection_limit, s)
          ELSE connection_limit

\* Metrics::new(): nothing observed yet
NoMetrics == [tls_handshake_time |-> 0, tls_connections |-> 0, handshake_errors |-> 0]

\* The two providers of tests::test_kyber768_key_exchange
Providers == {1, 2}

NoCall == [fn |-> "none"]

\* ------------------------------------------------------------------ Init
ServerInit ==
    /\ listener = "init"
    /\ startResult = "none"
    /\ accepted = 0
    /\ connection_limit = SemaphoreNew(MaxConnections)
    /\ pc = [s \in Sessions |-> "unspawned"]
    /\ permit = [s \in Sessions |-> FALSE]
    /\ waited = [s \in Sessions |-> FALSE]
    /\ sock = [s \in Sessions |-> {}]
    /\ lastExit = NoExit
    /\ relay = [s \in Sessions |-> [d \in Dirs |-> IdleDir]]
    /\ sentBytes = 0
    /\ metrics = NoMetrics

Init ==
    /\ load \in Workloads
    /\ ServerInit
    /\ unit = "server"
    /\ providers = [i \in Providers |-> None]
    /\ shared = [i \in Providers |-> None]
    /\ presented = None
    /\ call = NoCall

\* ----------------------------------------------------------------- start
\* TcpListener::bind(..).await? succeeds
Bind ==
    /\ listener = "init"
    /\ listener' = "listening"
    /\ UNCHANGED <<unitVars, metrics, load, startResult, accepted, connection_limit, pc, permit, waited, sock,
                   lastExit, relay, sentBytes>>

\* TcpListener::bind(..).await? fails: start returns the error
BindFail ==
    /\ listener = "init"
    /\ listener' = "returned"
    /\ startResult' = "bind_error"
    /\ UNCHANGED <<unitVars, metrics, load, accepted, connection_limit, pc, permit, waited, sock, lastExit,
                   relay, sentBytes>>

\* (mutant) the loop takes a connection only while a permit is free
ListenerAcceptWhilePermitFree ==
    /\ listener = "listening"
    /\ accepted < load.conns
    /\ connection_limit.permits > 0
    /\ accepted' = accepted + 1
    /\ pc' = [pc EXCEPT ![accepted + 1] = "start"]
    /\ sock' = [sock EXCEPT ![accepted + 1] = {"client"}]
    /\ UNCHANGED <<unitVars, metrics, load, listener, startResult, connection_limit,
                   permit, waited, lastExit, relay, sentBytes>>

\* listener.accept().await? succeeds: the session task is spawned
ListenerAccept ==
    /\ listener = "listening"
    /\ accepted < load.conns
    /\ accepted' = accepted + 1
    /\ pc' = [pc EXCEPT ![accepted + 1] = "start"]
    /\ sock' = [sock EXCEPT ![accepted + 1] = {"client"}]
    /\ UNCHANGED <<unitVars, metrics, load, listener, startResult, connection_limit, permit, waited, lastExit,
                   relay, sentBytes>>

\* listener.accept().await? fails: the `?` returns the error from start
ListenerAcceptFail ==
    /\ listener = "listening"
    /\ listener' = "returned"
    /\ startResult' = "accept_error"
    /\ UNCHANGED <<unitVars, metrics, load, accepted, connection_limit, pc, permit, waited, sock, lastExit,
                   relay, sentBytes>>

\* ------------------------------------------------------ handle_connection
\* (mutant) a session that finds no free permit goes on without one
AcquireNeverWaits(s) ==
    /\ pc[s] = "start"
    /\ connection_limit' =
          IF connection_limit.permits > 0
          THEN [connection_limit EXCEPT !.permits = @ - 1]
          ELSE connection_limit
    /\ permit' = [permit EXCEPT ![s] = connection_limit.permits > 0]
    /\ pc' = [pc EXCEPT ![s] = "tls_accept"]
    /\ UNCHANGED <<unitVars, metrics, load, listener, startResult, accepted, waited,
                   sock, lastExit, relay, sentBytes>>

\* connection_limit.acquire(): a free permit is taken at once, otherwise the
\* task queues behind the earlier waiters.
Acquire(s) ==
    /\ pc[s] = "start"
    /\ IF connection_limit.permits > 0
       THEN /\ connection_limit' = [connection_limit EXCEPT !.permits = @ - 1]
            /\ permit' = [permit EXCEPT ![s] = TRUE]
            /\ pc' = [pc EXCEPT ![s] = "tls_accept"]
            /\ waited' = waited
       ELSE /\ connection_limit' = [connection_limit EXCEPT !.waiters = Append(@, s)]
            /\ permit' = permit
            /\ pc' = [pc EXCEPT ![s] = "waiting"]
            /\ waited' = [waited EXCEPT ![s] = TRUE]
    /\ UNCHANGED <<unitVars, metrics, load, listener, startResult, accepted, sock, lastExit, relay,
                   sentBytes>>

\* The woken acquire returns the permit that a release assigned to it.
AcquireResume(s) ==
    /\ pc[s] = "waiting"
    /\ s \in connection_limit.assigned
    /\ connection_limit' = [connection_limit EXCEPT !.assigned = @ \ {s}]
    /\ permit' = [permit EXCEPT ![s] = TRUE]
    /\ pc' = [pc EXCEPT ![s] = "tls_accept"]
    /\ UNCHANGED <<unitVars, metrics, load, listener, startResult, accepted, waited, sock, lastExit,
                   relay, sentBytes>>

\* A step of handle_connection that succeeds and leads to the next await.
Advance(s, from, to, opened) ==
    /\ pc[s] = from
    /\ pc' = [pc EXCEPT ![s] = to]
    /\ sock' = [sock EXCEPT ![s] = @ \cup opened]
    /\ UNCHANGED <<unitVars, load, listener, startResult, accepted, connection_limit, permit, waited,
                   lastExit, sentBytes>>

\* (mutant) the session is awaited by the accept loop, whose `?` passes the
\* error on: start returns
FailStopsStart(s, from, res) ==
    /\ pc[s] = from
    /\ ExitSession(s, res, "none", "none")
    /\ listener' = "returned"
    /\ startResult' = "session_error"
    /\ UNCHANGED <<unitVars, metrics, load, accepted, sentBytes>>

\* A step of handle_connection that fails: the `?` returns the error.
Fail(s, from, res) ==
    /\ pc[s] = from
    /\ ExitSession(s, res, "none", "none")
    /\ UNCHANGED <<unitVars, metrics, load, listener, startResult, accepted, sentBytes>>

\* self.metrics.record_tls_handshake_time(start_time.elapsed());
\* self.metrics.increment_tls_connections();
RecordHandshake(m) ==
    [m EXCEPT !.tls_handshake_time = @ + 1, !.tls_connections = @ + 1]

\* tls_manager.accept(client_stream).await?: the classical handshake of the
\* acceptor succeeds, the metrics are recorded and the stream is returned
TlsAcceptOk(s) ==
    /\ Advance(s, "tls_accept", "tcp_connect", {})
    /\ metrics' = RecordHandshake(metrics)
    /\ UNCHANGED relay
TlsAcceptErr(s) == Fail(s, "tls_accept", "Io")

\* TcpStream::connect(&config.target_addr).await?
TcpConnectOk(s) ==
    Advance(s, "tcp_connect", "tls_tcp", {"target_stream"})
       /\ UNCHANGED <<relay, metrics>>
TcpConnectErr(s) == Fail(s, "tcp_connect", "Io")

\* tls_manager.connect: TcpStream::connect(&self.config.server_addr).await?
TlsTcpOk(s) ==
    Advance(s, "tls_tcp", "tls_hs", {"target_tls"}) /\ UNCHANGED <<relay, metrics>>
TlsTcpErr(s) == Fail(s, "tls_tcp", "Io")

\* tls_manager.connect: the handshake; then the streams are split and the two
\* proxy_data futures are created and polled by select!
TlsHandshakeOk(s) ==
    /\ Advance(s, "tls_hs", "relay", {})
    /\ metrics' = RecordHandshake(metrics)
    /\ relay' = [relay EXCEPT ![s] = [d \in Dirs |-> [@[d] EXCEPT !.st = "read"]]]
TlsHandshakeErr(s) == Fail(s, "tls_hs", "Io")

\* Where tls_manager.accept of session s stands, in the states of the
\* handshake engine: not called yet; suspended in the classical handshake of
\* the acceptor (tls.rs:57); returned Ok(tls_stream) (tls.rs:63).  No line of
\* accept calls perform_quantum_safe_key_exchange or
\* CryptoProvider::key_exchange, so no position of accept is a post-quantum
\* exchange in progress.
AcceptState(s) ==
    CASE pc[s] \in {"unspawned", "start", "waiting"} -> "Idle"
      [] pc[s] = "tls_accept" -> "ClassicHandshakeInProgress"
      [] pc[s] \in {"tcp_connect", "tls_tcp", "tls_hs", "relay"} -> "Established"
      [] OTHER -> "Closed"

\* main returns once start has returned an error: the runtime is dropped and
\* with it every spawned task, at the await it is suspended at.
Abort(s) ==
    /\ listener = "returned"
    /\ pc[s] \notin {"unspawned", "done"}
    /\ ExitSession(s, "Aborted", "none", "none")
    /\ UNCHANGED <<unitVars, metrics, load, listener, startResult, accepted, sentBytes>>

\* ------------------------------------------------------------ the peers
\* The peer at the source of direction d sends one more byte; the bytes of a
\* run are numbered, so that no two of them are equal.
PeerSend(s, d) ==
    /\ pc[s] = "relay"
    /\ sentBytes < load.bytes
    /\ sentBytes' = sentBytes + 1
    /\ relay' = [relay EXCEPT ![s][d].sent = Append(@, sentBytes + 1)]
    /\ UNCHANGED <<unitVars, metrics, load, listener, startResult, accepted, connection_limit, pc, permit, waited,
                   sock, lastExit>>

\* ------------------------------------------------------------ proxy_data
\* let n = reader.read(&mut buffer).await?  with n > 0: the next n bytes of
\* the source, at most the buffer's size, are now buffer[..n]
ReadChunk(r, n) ==
    [r EXCEPT !.chunk = SubSeq(r.sent, r.nread + 1, r.nread + n),
              !.nread = @ + n,
              !.off = 0,
              !.st = "write"]

Read(s, d, n) ==
    /\ pc[s] = "relay"
    /\ relay[s][d].st = "read"
    /\ n \in 1..Min(BufSize, Len(relay[s][d].sent) - relay[s][d].nread)
    /\ relay' = [relay EXCEPT ![s][d] = ReadChunk(@, n)]
    /\ UNCHANGED <<unitVars, metrics, load, listener, startResult, accepted, connection_limit, pc, permit, waited,
                   sock, lastExit, sentBytes>>

\* (mutant) total_bytes += buffer.len() instead of n
WritePartCountsBuffer(r, k) ==
    LET done == r.off + k = Len(r.chunk) IN
    [r EXCEPT !.dst = @ \o SubSeq(r.chunk, r.off + 1, r.off + k),
              !.off = IF done THEN 0 ELSE @ + k,
              !.chunk = IF done THEN <<>> ELSE @,
              !.total = IF done THEN @ + BufSize ELSE @,
              !.st = IF done THEN "read" ELSE "write"]

\* (mutant) after a partial write the rest is taken from the start of the
\* buffer again
WritePartRestarts(r, k) ==
    LET done == r.off + k = Len(r.chunk) IN
    [r EXCEPT !.dst = @ \o SubSeq(r.chunk, 1, k),
              !.off = IF done THEN 0 ELSE @ + k,
              !.chunk = IF done THEN <<>> ELSE @,
              !.total = IF done THEN @ + Len(r.chunk) ELSE @,
              !.st = IF done THEN "read" ELSE "write"]

\* writer.write_all(&buffer[..n]).await? accepts k more bytes; once the whole
\* chunk is written, total_bytes += n and the loop reads again
WritePart(r, k) ==
    LET done == r.off + k = Len(r.chunk) IN
    [r EXCEPT !.dst = @ \o SubSeq(r.chunk, r.off + 1, r.off + k),
              !.off = IF done THEN 0 ELSE @ + k,
              !.chunk = IF done THEN <<>> ELSE @,
              !.total = IF done THEN @ + Len(r.chunk) ELSE @,
              !.st = IF done THEN "read" ELSE "write"]

WriteSome(s, d, k) ==
    /\ pc[s] = "relay"
    /\ relay[s][d].st = "write"
    /\ k \in 1..(Len(relay[s][d].chunk) - relay[s][d].off)
    /\ relay' = [relay EXCEPT ![s][d] = WritePart(@, k)]
    /\ UNCHANGED <<unitVars, metrics, load, listener, startResult, accepted, connection_limit, pc, permit, waited,
                   sock, lastExit, sentBytes>>

\* (mutant) the relay's error is passed on with `?`
RelayResultPassesError(how) == IF how = "returned_err" THEN "Io" ELSE "Ok"

\* What handle_connection returns once a direction of the relay has ended:
\* the select! arm logs an error and the function ends with Ok(()).
RelayResult(how) == "Ok"

\* read returns 0 (the peer has closed, and all it sent has been read): the
\* loop breaks, proxy_data returns Ok(()), select! completes and drops the
\* sibling, handle_connection returns
ReadEof(s, d) ==
    /\ pc[s] = "relay"
    /\ relay[s][d].st = "read"
    /\ relay[s][d].nread = Len(relay[s][d].sent)
    /\ ExitSession(s, RelayResult("returned_ok"), d, "returned_ok")
    /\ UNCHANGED <<unitVars, metrics, load, listener, startResult, accepted, sentBytes>>

\* read or write_all fails: the `?` makes proxy_data return the error
IoError(s, d) ==
    /\ pc[s] = "relay"
    /\ relay[s][d].st \in {"read", "write"}
    /\ ExitSession(s, RelayResult("returned_err"), d, "returned_err")
    /\ UNCHANGED <<unitVars, metrics, load, listener, startResult, accepted, sentBytes>>

\* ------------------------------------------------------------------ Next
SessionStep(s) ==
    \/ Acquire(s)
    \/ AcquireResume(s)
    \/ TlsAcceptOk(s)
    \/ TlsAcceptErr(s)
    \/ TcpConnectOk(s)
    \/ TcpConnectErr(s)
    \/ TlsTcpOk(s)
    \/ TlsTcpErr(s)
    \/ TlsHandshakeOk(s)
    \/ TlsHandshakeErr(s)
    \/ \E d \in Dirs :
          \/ PeerSend(s, d)
          \/ \E n \in 1..BufSize : Read(s, d, n)
          \/ \E k \in 1..BufSize : WriteSome(s, d, k)
          \/ ReadEof(s, d)
          \/ IoError(s, d)

Next ==
    \/ Bind
    \/ BindFail
    \/ ListenerAccept
    \/ ListenerAcceptFail
    \/ \E s \in Sessions : SessionStep(s)
    \/ \E s \in Sessions : Abort(s)

Spec == Init /\ [][Next]_vars

\* The runtime keeps polling and the peers keep answering: while some session
\* can take a step, some session takes one.  A session takes finitely many
\* steps, so the admitted sessions terminate.
LiveSpec == Spec /\ WF_vars(\E s \in Sessions : SessionStep(s))

\* The runtime polls every task that is ready; nothing is assumed of the
\* peers and the network.
SchedSpec == Spec /\ \A s \in Sessions : WF_vars(Acquire(s) \/ AcquireResume(s))

\* ======================================= the operations called directly
\* The operations of CryptoProvider and the fallback decision are called
\* by no step of the server (proxy.rs and tls.rs only hold the provider):
\* they are exercised as the tests of crypto.rs do, one component per run.
Units == {"kem", "sign", "fallback"}

\* Result<T>: Ok(v), Err(kind of SafeQuantaError)
Ok(v) == [ok |-> TRUE, val |-> v]
Err(kind) == [ok |-> FALSE, val |-> kind]

\* FallbackDecision: Reject, Redirect(port), ClassicTls, or the hybrid
\* handshake of a capable peer
Decision(kind, port) == [kind |-> kind, port |-> port]

\* (mutant) Redirect without a configured port falls back to classical TLS
DecideDowngradesWithoutPort(peerSupportsPqc, strategy, configuredNonPqcPort) ==
    IF peerSupportsPqc THEN Decision("Hybrid", None)
    ELSE IF strategy = "Redirect" /\ configuredNonPqcPort # None
         THEN Decision("Redirect", configuredNonPqcPort)
    ELSE IF strategy = "Reject" THEN Decision("Reject", None)
    ELSE Decision("ClassicTls", None)

\* FallbackPolicy.decide(peerSupportsPqc, strategy, configuredNonPqcPort)
decide(peerSupportsPqc, strategy, configuredNonPqcPort) ==
    IF peerSupportsPqc THEN Decision("Hybrid", None)
    ELSE CASE strategy = "Reject" -> Decision("Reject", None)
           [] strategy = "Redirect" ->
                 IF configuredNonPqcPort # None
                 THEN Decision("Redirect", configuredNonPqcPort)
                 ELSE Decision("Reject", None)
           [] strategy = "ClassicTls" -> Decision("ClassicTls", None)

\* decide is called for a peer and a fallback configuration
DecideCall(q, f) ==
    /\ unit = "fallback"
    /\ call' = [fn |-> "decide", peer_pqc |-> q, config |-> f,
                result |-> decide(q, f.strategy, f.non_pqc_port)]
    /\ UNCHANGED <<unit, providers, shared, presented>>
    /\ UNCHANGED <<load, listener, startResult, accepted, connection_limit, pc,
                   permit, waited, sock, lastExit, relay, sentBytes, metrics>>

\* ------------------------------------------------------- CryptoProvider
\* config.rs: enum KemAlgorithm, enum SignatureAlgorithm
KemAlgorithm == {"Kyber768", "Kyber1024"}
SignatureAlgorithm == {"Dilithium3", "Rsa3072"}

Seeds == 1..NumKeys
Coins == 1..NumCoins

\* A key pair (sk, pk) of an algorithm, as its generator returns it for one
\* of its random outcomes, or as a key file and its certificate hold it.
KeyPair(alg, seed) ==
    [sk |-> [alg |-> alg, part |-> "secret", seed |-> seed],
     pk |-> [alg |-> alg, part |-> "public", seed |-> seed]]

\* CryptoProvider::new on readable PEM files, the certificate being the
\* certificate of the private key (tests/fixtures/test.crt, test.key):
\* tls is the key pair of the files, kem and sgn are the outcomes of
\* kyberNNN::keypair() and dilithium3::keypair().
CryptoProviderNew(kem_algorithm, signature_algorithm, tls, kem, sgn) ==
    [kem_algorithm |-> kem_algorithm,
     signature_algorithm |-> signature_algorithm,
     private_key |-> KeyPair("Rsa", tls).sk,
     public_key |-> KeyPair("Rsa", tls).pk,
     kem_secret_key |-> Some(KeyPair(kem_algorithm, kem).sk),
     kem_public_key |-> Some(KeyPair(kem_algorithm, kem).pk),
     sign_secret_key |->
        IF signature_algorithm = "Dilithium3"
        THEN Some(KeyPair("Dilithium3", sgn).sk) ELSE None,
     sign_public_key |->
        IF signature_algorithm = "Dilithium3"
        THEN Some(KeyPair("Dilithium3", sgn).pk) ELSE None]

\* A test constructs provider i.  With Rsa3072 no signature key pair is
\* generated.
NewProvider(i) ==
    /\ unit \in {"kem", "sign"}
    /\ unit = "sign" => i = 1
    /\ providers[i] = None
    /\ \E ka \in KemAlgorithm, sa \in SignatureAlgorithm,
          tls \in Seeds, kem \in Seeds, sgn \in Seeds :
          /\ sa = "Rsa3072" => sgn = 1
          /\ providers' = [providers EXCEPT
                              ![i] = Some(CryptoProviderNew(ka, sa, tls, kem, sgn))]
    /\ UNCHANGED <<unit, shared, presented, call>>
    /\ UNCHANGED <<load, listener, startResult, accepted, connection_limit, pc,
                   permit, waited, sock, lastExit, relay, sentBytes, metrics>>

\* The length of the encoding of a public key (pqcrypto: Kyber768 1184
\* bytes, Kyber1024 1568 bytes).
PublicKeyBytes(alg) == IF alg = "Kyber768" THEN 1184 ELSE 1568

\* kem_public_key.to_bytes(): the bytes carry the key, not its type
to_bytes(pk) == [len |-> PublicKeyBytes(pk.alg), seed |-> pk.seed]

\* kyberNNN::PublicKey::from_bytes: an encoding of another length is refused
from_bytes(alg, bytes) ==
    IF bytes.len = PublicKeyBytes(alg)
    THEN Ok([alg |-> alg, part |-> "public", seed |-> bytes.seed])
    ELSE Err("Crypto")

\* kyberNNN::encapsulate(&peer_pk): a shared secret, fixed by the key it is
\* encapsulated to and by the coins drawn, and the ciphertext that carries
\* it to the holder of the secret key.
encapsulate(pk, coin) ==
    [shared_secret |-> [alg |-> pk.alg, to |-> pk.seed, coin |-> coin],
     ciphertext |-> [alg |-> pk.alg, to |-> pk.seed, coin |-> coin]]

\* kyber768_key_exchange: from_bytes(..)?, encapsulate, and the shared
\* secret of the encapsulation is returned (the ciphertext is not)
kyber768_key_exchange(peer_public_key, coin) ==
    LET peer_pk == from_bytes("Kyber768", peer_public_key) IN
    IF ~peer_pk.ok THEN Err("Crypto")
    ELSE Ok(encapsulate(peer_pk.val, coin).shared_secret)

kyber1024_key_exchange(peer_public_key, coin) ==
    LET peer_pk == from_bytes("Kyber1024", peer_public_key) IN
    IF ~peer_pk.ok THEN Err("Crypto")
    ELSE Ok(encapsulate(peer_pk.val, coin).shared_secret)

\* CryptoProvider::key_exchange
key_exchange(self, peer_public_key, coin) ==
    CASE self.kem_algorithm = "Kyber768" ->
            kyber768_key_exchange(peer_public_key, coin)
      [] self.kem_algorithm = "Kyber1024" ->
            kyber1024_key_exchange(peer_public_key, coin)

\* provider i calls key_exchange on the bytes of the public key of the other
\* provider, as tests::test_kyber768_key_exchange does
KeyExchangeWithPeer(i) ==
    /\ unit = "kem"
    /\ \A j \in Providers : providers[j] # None
    /\ shared[i] = None
    /\ \E j \in Providers \ {i}, coin \in Coins :
          shared' = [shared EXCEPT
                        ![i] = Some(key_exchange(
                                       providers[i][1],
                                       to_bytes(providers[j][1].kem_public_key[1]),
                                       coin))]
    /\ UNCHANGED <<unit, providers, presented, call>>
    /\ UNCHANGED <<load, listener, startResult, accepted, connection_limit, pc,
                   permit, waited, sock, lastExit, relay, sentBytes, metrics>>

\* ---------------------------------------------------------- signatures
Byte == {0, 1}
Data == UNION {[1..n -> Byte] : n \in 0..MaxDataLen}

\* The bytes of a signature: the key that made it and the data it is over,
\* whether every bit is as the signer wrote it, and whether the encoding has
\* its whole length.
SignatureBytes(alg, seed, data) ==
    [alg |-> alg, seed |-> seed, msg |-> data, intact |-> TRUE, whole |-> TRUE]

\* What can happen to the bytes on their way to verify.
FlipBit(sig) == [sig EXCEPT !.intact = FALSE]
Truncate(sig) == [sig EXCEPT !.whole = FALSE]

\* The check of the primitive: the untouched signature of this data by the
\* secret key of pk.
Verifies(sig, data, pk) ==
    /\ sig.alg = pk.alg
    /\ sig.seed = pk.seed
    /\ sig.msg = data
    /\ sig.intact
    /\ sig.whole

\* dilithium3_sign: with sign_secret_key, dilithium3::sign(data, sk)
dilithium3_sign(self, data) ==
    IF self.sign_secret_key # None
    THEN Ok(SignatureBytes("Dilithium3", self.sign_secret_key[1].seed, data))
    ELSE Err("Crypto")

\* dilithium3_verify: with sign_public_key, Signature::from_bytes(..)? refuses
\* a malformed encoding ("Invalid signature"), and the boolean that
\* dilithium3::verify gives for a well-formed signature is passed on
dilithium3_verify(self, data, signature) ==
    IF self.sign_public_key = None THEN Err("Crypto")
    ELSE IF ~signature.whole THEN Err("Crypto")
    ELSE Ok(Verifies(signature, data, self.sign_public_key[1]))

\* (mutant) the RSA branch asks for sign_secret_key as the Dilithium one does
Rsa3072SignNeedsSignKey(self, data) ==
    IF self.sign_secret_key # None
    THEN Ok(SignatureBytes("Rsa", self.private_key.seed, data))
    ELSE Err("Crypto")

\* rsa3072_sign: Signer::new_without_digest(&self.private_key)?, then
\* sign_oneshot_to_vec(data)?: the key of the TLS layer signs, and
\* sign_secret_key is not looked at
rsa3072_sign(self, data) ==
    Ok(SignatureBytes("Rsa", self.private_key.seed, data))

\* rsa3072_verify: Verifier::new_without_digest(&self.public_key)?, then
\* verify_oneshot(signature, data)?, which is Ok(false) for every signature
\* that does not verify, one of the wrong length included: nothing parses
\* the bytes first
rsa3072_verify(self, data, signature) ==
    Ok(Verifies(signature, data, self.public_key))

\* CryptoProvider::sign
sign(self, data) ==
    CASE self.signature_algorithm = "Dilithium3" -> dilithium3_sign(self, data)
      [] self.signature_algorithm = "Rsa3072" -> rsa3072_sign(self, data)

\* (mutant) the arms of the match are swapped
VerifySwapsArms(self, data, signature) ==
    CASE self.signature_algorithm = "Dilithium3" ->
            rsa3072_verify(self, data, signature)
      [] self.signature_algorithm = "Rsa3072" ->
            dilithium3_verify(self, data, signature)

\* CryptoProvider::verify
verify(self, data, signature) ==
    CASE self.signature_algorithm = "Dilithium3" ->
            dilithium3_verify(self, data, signature)
      [] self.signature_algorithm = "Rsa3072" ->
            rsa3072_verify(self, data, signature)

\* provider.sign(data): the signature returned is the one at hand
SignCall(d) ==
    /\ unit = "sign"
    /\ providers[1] # None
    /\ LET r == sign(providers[1][1], d) IN
          /\ call' = [fn |-> "sign", data |-> d, result |-> r]
          /\ presented' = IF r.ok THEN Some(r.val) ELSE None
    /\ UNCHANGED <<unit, providers, shared>>
    /\ UNCHANGED <<load, listener, startResult, accepted, connection_limit, pc,
                   permit, waited, sock, lastExit, relay, sentBytes, metrics>>

\* One bit of the signature at hand is flipped, or its end is cut off.
AlterSignature(how) ==
    /\ unit = "sign"
    /\ presented # None
    /\ presented[1].intact /\ presented[1].whole
    /\ presented' = Some(IF how = "flip" THEN FlipBit(presented[1])
                         ELSE Truncate(presented[1]))
    /\ UNCHANGED <<unit, providers, shared, call>>
    /\ UNCHANGED <<load, listener, startResult, accepted, connection_limit, pc,
                   permit, waited, sock, lastExit, relay, sentBytes, metrics>>

\* provider.verify(data, &signature) on the signature at hand
VerifyCall(d) ==
    /\ unit = "sign"
    /\ providers[1] # None
    /\ presented # None
    /\ call' = [fn |-> "verify", data |-> d, signature |-> presented[1],
                result |-> verify(providers[1][1], d, presented[1])]
    /\ UNCHANGED <<unit, providers, shared, presented>>
    /\ UNCHANGED <<load, listener, startResult, accepted, connection_limit, pc,
                   permit, waited, sock, lastExit, relay, sentBytes, metrics>>

\* No server runs: the state of ProxyServer stays as constructed.
UnitInit ==
    /\ load = Workload(0, 0, FALSE, PlainFallback)
    /\ ServerInit
    /\ unit \in Units
    /\ providers = [i \in Providers |-> None]
    /\ shared = [i \in Providers |-> None]
    /\ presented = None
    /\ call = NoCall

UnitNext ==
    \/ \E i \in Providers : NewProvider(i)
    \/ \E i \in Providers : KeyExchangeWithPeer(i)
    \/ \E d \in Data : SignCall(d)
    \/ \E how \in {"flip", "truncate"} : AlterSignature(how)
    \/ \E d \in Data : VerifyCall(d)
    \/ \E q \in BOOLEAN : \E f \in FallbackConfig : DecideCall(q, f)

UnitSpec == UnitInit /\ [][UnitNext]_vars

\* ================================================================ claims
Holders == {s \in Sessions : permit[s]}

\* The sessions a permit is out to: held in _permit, or assigned to a woken
\* acquire that has not returned yet.
PermitsOut == Holders \cup connection_limit.assigned

AllClosed == \A s \in Sessions : pc[s] \in {"unspawned", "done"}

Count(q, x) == Cardinality({i \in 1..Len(q) : q[i] = x})

\* C1: at any moment the sessions that have acquired a permit and have not
\* left handle_connection are at most max_connections.
C1_ActiveWithinLimit ==
    /\ Cardinality(Holders) <= MaxConnections
    /\ Cardinality(PermitsOut) <= MaxConnections

\* C1 witness: the limit is reached while a further session waits.
C1_Witness ==
    /\ Cardinality(Holders) = MaxConnections
    /\ connection_limit.waiters # <<>>

\* C2: every session that acquired a permit releases it exactly once on every
\* way out of handle_connection (return, error, abort): the free permits plus
\* the permits out to live sessions are always max_connections, a session
\* that is not inside handle_connection has none, and the end of a task that
\* held the permit dropped it once.
C2_PermitReleasedOnce ==
    /\ connection_limit.permits + Cardinality(PermitsOut) = MaxConnections
    /\ \A s \in Sessions :
          /\ pc[s] \in {"unspawned", "start", "done"} => s \notin PermitsOut
          /\ permit[s] <=> pc[s] \in {"tls_accept", "tcp_connect", "tls_tcp",
                                      "tls_hs", "relay"}
    /\ lastExit.at \in {"tls_accept", "tcp_connect", "tls_tcp", "tls_hs", "relay"}
          => Count(lastExit.dropped, "permit") = 1
    /\ lastExit.at \in {"start", "waiting"} => Count(lastExit.dropped, "permit") = 0

\* C2 witness: a task aborted in the relay gave its permit to a waiter.
C2_Witness ==
    /\ lastExit.result = "Aborted"
    /\ lastExit.at = "relay"
    /\ connection_limit.assigned # {}

\* C3: no permit leaks: once every session of a burst above the limit has
\* closed, all max_connections permits are free again; and a session waits
\* only while all permits are out, so a fresh burst of max_connections
\* sessions acquires without waiting.
C3_NoPermitLeak ==
    /\ AllClosed => connection_limit = SemaphoreNew(MaxConnections)
    /\ connection_limit.waiters # <<>> =>
          /\ connection_limit.permits = 0
          /\ Cardinality(PermitsOut) = MaxConnections

\* C3 witness: a burst of more sessions than permits has closed, the last of
\* them one that had waited, and every permit is free.
C3_Witness ==
    /\ AllClosed
    /\ accepted > MaxConnections
    /\ lastExit.waited
    /\ connection_limit.permits = MaxConnections

\* C4: the sessions of a burst that find no free permit are suspended in
\* acquire, neither dropped nor failed by the server, and each of them is
\* admitted eventually, given that the admitted sessions terminate and the
\* tasks keep being scheduled (the task is not dropped with the runtime).
C4_WaitersAdmitted ==
    /\ [][\A s \in Sessions :
            pc[s] = "waiting" =>
               \/ pc'[s] = "waiting"
               \/ pc'[s] = "tls_accept" /\ permit'[s]
               \/ listener = "returned" /\ lastExit'.session = s
                     /\ lastExit'.result = "Aborted"]_vars
    /\ \A s \in Sessions :
          pc[s] = "waiting" ~>
             \/ permit[s]
             \/ lastExit.session = s /\ lastExit.at = "waiting"

\* C4 witness: a session that had to wait holds a permit, in a burst above
\* the limit.
C4_Witness ==
    \E s \in Sessions :
        /\ waited[s]
        /\ permit[s]
        /\ accepted > MaxConnections
        /\ listener = "listening"

\* C5: while the server runs, no session stays in its upstream connect or
\* handshake for ever holding its permit: when the step does not complete,
\* the deadline fails the session and the permit is released.
C5_DeadlineEndsSession ==
    \A s \in Sessions :
        (pc[s] \in {"tcp_connect", "tls_tcp", "tls_hs"} /\ permit[s])
           ~> \/ pc[s] \notin {"tcp_connect", "tls_tcp", "tls_hs"}
              \/ ~permit[s]
              \/ listener = "returned"

\* C6: only a failure to bind makes start return an error; a failed accept
\* does not.
C6_OnlyBindFailureReturns ==
    listener = "returned" => startResult = "bind_error"

\* C7: a handshake or relay error of one session ends only that session: the
\* accept loop and every other session (its position, its permit, its
\* sockets, its relay, its place in the queue) are as before.
SessionError(s) ==
    /\ pc[s] # "done"
    /\ pc'[s] = "done"
    /\ lastExit'.session = s
    /\ lastExit'.result = "Io" \/ lastExit'.how = "returned_err"

C7_ErrorEndsOnlyItsSession ==
    [][\A s \in Sessions :
          SessionError(s) =>
             /\ listener' = listener
             /\ startResult' = startResult
             /\ accepted' = accepted
             /\ \A t \in Sessions \ {s} :
                   /\ pc'[t] = pc[t]
                   /\ permit'[t] = permit[t]
                   /\ sock'[t] = sock[t]
                   /\ relay'[t] = relay[t]
                   /\ t \in connection_limit.assigned => t \in connection_limit'.assigned
                   /\ t \in Range(connection_limit.waiters) =>
                         t \in Range(connection_limit'.waiters)
                                  \cup connection_limit'.assigned]_vars

\* C7 witness: after the error of one session the listener still accepts and
\* another session is relaying, with bytes delivered.
C7_Witness ==
    /\ lastExit.result = "Io"
    /\ listener = "listening"
    /\ \E t \in Sessions \ {lastExit.session} :
          /\ pc[t] = "relay"
          /\ \E d \in Dirs : relay[t][d].dst # <<>>

\* C8: when a direction of the relay ends (zero-length read or I/O error) the
\* session ends: the sibling copy is cancelled with it, and the client socket
\* and the upstream sockets are closed before the permit is released.
C8_RelayEndClosesThenReleases ==
    (lastExit.at = "relay" /\ lastExit.ended \in Dirs) =>
        LET q == lastExit.dropped
            s == lastExit.session
        IN  /\ pc[s] = "done"
            /\ \A d \in Dirs : relay[s][d].st = "idle"
            /\ sock[s] = {}
            /\ {"client_to_target", "target_to_client", "target_stream", "permit"}
                  \subseteq Range(q)
            /\ \A x \in Range(q) \ {"permit"} : IndexOf(q, x) < IndexOf(q, "permit")

\* C8 witness: the relay ended by a zero-length read from the client.
C8_Witness ==
    /\ lastExit.at = "relay"
    /\ lastExit.ended = "c2t"
    /\ lastExit.how = "returned_ok"
    /\ connection_limit.permits = MaxConnections

\* C9: in one direction a chunk is written completely before the next one is
\* read, so what has been written is always a prefix, in order, of what has
\* been read: written bytes plus the rest of the chunk are the bytes read.
C9_InOrderPerDirection ==
    \A s \in Sessions : \A d \in Dirs :
        LET r == relay[s][d] IN
        /\ r.dst \o SubSeq(r.chunk, r.off + 1, Len(r.chunk)) = SubSeq(r.sent, 1, r.nread)
        /\ r.st = "read" => (r.chunk = <<>> /\ Len(r.dst) = r.nread)
        /\ r.st = "write" => r.off < Len(r.chunk)

\* C9 witness: a second chunk, of two bytes, is half written after a first
\* chunk of one byte.
C9_Witness ==
    \E s \in Sessions : \E d \in Dirs :
        /\ relay[s][d].st = "write"
        /\ relay[s][d].nread = 3
        /\ relay[s][d].off = 1
        /\ Len(relay[s][d].dst) = 2

\* C10: in a session past both handshakes, each side receives exactly the
\* bytes the other sent, and the byte counter of a direction is the number of
\* bytes relayed in it.
C10_ExactBytesAndCounters ==
    \A s \in Sessions : \A d \in Dirs :
        LET r == relay[s][d] IN
        /\ Len(r.dst) <= Len(r.sent)
        /\ r.dst = SubSeq(r.sent, 1, Len(r.dst))
        /\ r.total + r.off = Len(r.dst)
        /\ (r.st = "read" /\ r.nread = Len(r.sent)) =>
              (r.dst = r.sent /\ r.total = Len(r.sent))

\* C10 witness: the client's message has reached the upstream and the reply
\* the client, and both counters show the lengths.
C10_Witness ==
    \E s \in Sessions :
        /\ pc[s] = "relay"
        /\ Len(relay[s]["c2t"].sent) = 2
        /\ relay[s]["c2t"].dst = relay[s]["c2t"].sent
        /\ relay[s]["c2t"].total = 2
        /\ Len(relay[s]["t2c"].sent) = 1
        /\ relay[s]["t2c"].dst = relay[s]["t2c"].sent
        /\ relay[s]["t2c"].total = 1

\* C11: when max_connections + 1 clients connect at the same time, exactly
\* max_connections of the connection attempts succeed: in such a burst the
\* connections the listener has accepted are never more than max_connections.
C11_ExactlyLimitSucceed ==
    load.conns = MaxConnections + 1 => accepted <= MaxConnections

\* C12: for a post-quantum-capable peer, accept returns an established
\* channel only after the post-quantum key exchange, which begins only after
\* the classical handshake has completed: the channel becomes Established
\* from PqExchangeInProgress only, and PqExchangeInProgress is entered from
\* ClassicHandshakeInProgress only.
C12_PqExchangeBeforeEstablished ==
    [][\A s \in Sessions :
          load.peer_pqc =>
             /\ (AcceptState(s) # "Established" /\ AcceptState(s)' = "Established")
                   => AcceptState(s) = "PqExchangeInProgress"
             /\ (AcceptState(s) # "PqExchangeInProgress"
                   /\ AcceptState(s)' = "PqExchangeInProgress")
                   => AcceptState(s) = "ClassicHandshakeInProgress"]_vars

\* C14: when the configured fallback strategy is Reject, accept on a
\* connection from a peer without post-quantum capability never returns an
\* established channel: the session never reaches the upstream connect or
\* the relay.
C14_RejectNeverEstablishes ==
    (load.fallback.strategy = "Reject" /\ ~load.peer_pqc) =>
        \A s \in Sessions :
            /\ AcceptState(s) # "Established"
            /\ pc[s] \notin {"tcp_connect", "tls_tcp", "tls_hs", "relay"}
            /\ "target_stream" \notin sock[s]

\* C13: the fallback decision for a peer without post-quantum capability is
\* a total function of strategy and configured port: Reject gives Reject,
\* Redirect with a port P gives Redirect(P), Redirect without a port gives
\* Reject, ClassicTls proceeds and never gives Reject; a capable peer
\* proceeds with the hybrid handshake under every strategy.
C13_FallbackDecisionTable ==
    call.fn = "decide" =>
        LET st == call.config.strategy
            port == call.config.non_pqc_port
            r == call.result
        IN  /\ r.kind \in {"Hybrid", "Reject", "Redirect", "ClassicTls"}
            /\ call.peer_pqc => r.kind = "Hybrid"
            /\ ~call.peer_pqc =>
                  /\ st = "Reject" => r.kind = "Reject"
                  /\ (st = "Redirect" /\ port # None) =>
                        (r.kind = "Redirect" /\ r.port = port)
                  /\ (st = "Redirect" /\ port = None) => r.kind = "Reject"
                  /\ st = "ClassicTls" => r.kind = "ClassicTls"

\* C13 witness: Redirect without a port was decided for a peer without the
\* capability, and the decision is Reject.
C13_Witness ==
    /\ call.fn = "decide"
    /\ ~call.peer_pqc
    /\ call.config.strategy = "Redirect"
    /\ call.config.non_pqc_port = None
    /\ call.result.kind = "Reject"

\* C15: for every supported KEM algorithm, when two independently
\* constructed providers of that algorithm have each called key_exchange on
\* the other's KEM public key, both calls have returned a shared secret and
\* the two secrets are the same bytes.
C15_KemSecretsAgree ==
    (/\ \A i \in Providers : providers[i] # None /\ shared[i] # None
     /\ providers[1][1].kem_algorithm = providers[2][1].kem_algorithm)
       => /\ shared[1][1].ok
          /\ shared[2][1].ok
          /\ shared[1][1].val = shared[2][1].val

\* C16: for every supported signature algorithm (Dilithium3 and Rsa3072) and
\* every input, the empty one included, sign returns a signature and
\* verify(data, sign(data)) on the same provider returns true.
C16_SignThenVerify ==
    /\ call.fn = "sign" => call.result.ok
    /\ call.fn = "verify" =>
          LET signed == sign(providers[1][1], call.data) IN
          /\ signed.ok
          /\ call.signature = signed.val => (call.result.ok /\ call.result.val = TRUE)

\* C16 witness: an Rsa3072 provider has verified its signature of the empty
\* input, and the answer is true.
C16_Witness ==
    /\ call.fn = "verify"
    /\ providers[1][1].signature_algorithm = "Rsa3072"
    /\ call.data = <<>>
    /\ call.signature = sign(providers[1][1], <<>>).val
    /\ call.result.ok
    /\ call.result.val = TRUE

\* C17: verify tells an invalid signature from a malformed one, for every
\* signature algorithm: on a valid signature with one bit flipped it returns
\* false and no error; on a truncated signature it fails with a Crypto error.
C17_InvalidVsMalformed ==
    call.fn = "verify" =>
        LET signed == sign(providers[1][1], call.data) IN
        signed.ok =>
           /\ call.signature = FlipBit(signed.val) =>
                 (call.result.ok /\ call.result.val = FALSE)
           /\ call.signature = Truncate(signed.val) =>
                 (~call.result.ok /\ call.result.val = "Crypto")

\* C18 (as claimed): sign fails whenever the provider holds no signature
\* secret key, in particular for a provider constructed with Rsa3072.
C18_SignFailsWithoutSignKey ==
    (call.fn = "sign" /\ providers[1][1].sign_secret_key = None) => ~call.result.ok

\* C18 (amended): sign fails with a Crypto error when the key its algorithm
\* signs with is missing, which for Dilithium3 is the signature secret key;
\* a provider constructed with Rsa3072 holds no signature secret key, and
\* its sign uses the classical private key and returns a signature.
C18_SignFailsWithoutItsKey ==
    providers[1] # None =>
        LET p == providers[1][1]
            bare == [p EXCEPT !.sign_secret_key = None]
        IN  /\ p.signature_algorithm = "Rsa3072" => p.sign_secret_key = None
            /\ \A d \in Data :
                  /\ sign(p, d).ok
                  /\ p.signature_algorithm = "Dilithium3" =>
                        (~sign(bare, d).ok /\ sign(bare, d).val = "Crypto")
                  /\ p.signature_algorithm = "Rsa3072" =>
                        (sign(p, d).val.alg = "Rsa"
                           /\ sign(p, d).val.seed = p.private_key.seed)
            /\ call.fn = "sign" => call.result = sign(p, call.data)

\* C18 witness: a provider constructed with Rsa3072, which holds no signature
\* secret key, has signed.
C18_Witness ==
    /\ call.fn = "sign"
    /\ providers[1][1].signature_algorithm = "Rsa3072"
    /\ providers[1][1].sign_secret_key = None
    /\ call.result.ok

\* C19: each session takes its steps in the fixed order acquire, client
\* handshake, connect to upstream, upstream handshake, relay, release; no
\* handshake, connect or relay step is taken without the permit; and a
\* failure at a step skips every later step but the release of the permit
\* (a failed client handshake opens no upstream connection).
StepOrder ==
    { <<"unspawned", "start">>, <<"start", "waiting">>, <<"start", "tls_accept">>,
      <<"waiting", "tls_accept">>, <<"tls_accept", "tcp_connect">>,
      <<"tcp_connect", "tls_tcp">>, <<"tls_tcp", "tls_hs">>, <<"tls_hs", "relay">> }

C19_FixedStepOrder ==
    /\ [](\A s \in Sessions :
            /\ pc[s] \in {"tls_accept", "tcp_connect", "tls_tcp", "tls_hs", "relay"}
                  => permit[s]
            /\ "target_stream" \in sock[s] => pc[s] \in {"tls_tcp", "tls_hs", "relay"}
            /\ "target_tls" \in sock[s] => pc[s] \in {"tls_hs", "relay"}
            /\ (\E d \in Dirs : relay[s][d] # IdleDir) => pc[s] = "relay"
            /\ pc[s] = "done" => (sock[s] = {} /\ ~permit[s]))
    /\ [][\A s \in Sessions :
            pc'[s] # pc[s] =>
               \/ <<pc[s], pc'[s]>> \in StepOrder
               \/ /\ pc[s] \notin {"unspawned", "done"}
                  /\ pc'[s] = "done"
                  /\ lastExit'.session = s
                  /\ lastExit'.at = pc[s]
                  /\ permit[s] =>
                        /\ Count(lastExit'.dropped, "permit") = 1
                        /\ lastExit'.dropped[Len(lastExit'.dropped)] = "permit"
                  /\ lastExit'.at \in {"tls_accept", "tcp_connect"} =>
                        lastExit'.dropped = <<"client", "permit">>]_vars

\* C19 witness: the client handshake of a session failed, which closed its
\* client socket and then released its permit, while another session relays.
C19_Witness ==
    /\ lastExit.at = "tls_accept"
    /\ lastExit.result = "Io"
    /\ lastExit.dropped = <<"client", "permit">>
    /\ \E t \in Sessions : pc[t] = "relay" /\ sock[t] = {"client", "target_stream", "target_tls"}

\* C20: every handshake that terminates, accept or connect, successful or
\* failed, reports its latency and its outcome to the metrics: a handshake
\* time is recorded, and a failure adds to the handshake error count.
HandshakeEnds(s) ==
    /\ \/ pc[s] = "tls_accept" /\ pc'[s] # "tls_accept"
       \/ pc[s] \in {"tls_tcp", "tls_hs"} /\ pc'[s] \notin {"tls_tcp", "tls_hs"}
    /\ ~(pc'[s] = "done" /\ lastExit'.result = "Aborted")

C20_EveryHandshakeReported ==
    [][\A s \in Sessions :
          HandshakeEnds(s) =>
             /\ metrics'.tls_handshake_time = metrics.tls_handshake_time + 1
             /\ IF pc'[s] = "done"
                THEN metrics'.handshake_errors = metrics.handshake_errors + 1
                ELSE metrics'.tls_connections = metrics.tls_connections + 1]_vars

\* C21: each session opens exactly one transport connection to the upstream,
\* the one the outbound handshake and the relay run on: at no time does a
\* session hold more than one open upstream connection.
UpstreamConnections(s) == sock[s] \cap {"target_stream", "target_tls"}

C21_OneUpstreamConnection ==
    \A s \in Sessions : Cardinality(UpstreamConnections(s)) <= 1

\* C22: the accept loop is never blocked by permit exhaustion: start accepts
\* the connection and spawns the session task before the permit is
\* requested.  While the listener listens and a client is connecting, the
\* accept can be taken, whatever the semaphore holds; the accept itself
\* leaves the semaphore alone and leaves the new task, with its open client
\* socket and no permit, before acquire; so the sockets held by tasks
\* suspended in acquire are all the accepted ones that found no permit, as
\* many as there are such clients.
Waiting == {s \in Sessions : pc[s] = "waiting"}

C23_ForceCloseNoDrain ==
    /\ [](\A s \in Sessions :
             pc[s] = "done" =>
                /\ \A d \in Dirs : relay[s][d].st = "idle"
                /\ ~ENABLED (\E d \in Dirs : \E n \in 1..BufSize :
                                Read(s, d, n) \/ WriteSome(s, d, n)))
    /\ [][\A s \in Sessions :
             /\ (pc[s] = "relay" /\ pc'[s] # "relay") =>
                   /\ lastExit'.session = s
                   /\ \A d \in Dirs :
                         /\ lastExit'.read[d] = relay[s][d].nread
                         /\ lastExit'.written[d] = Len(relay[s][d].dst)
             /\ \A d \in Dirs :
                   (\/ relay'[s][d].nread > relay[s][d].nread
                    \/ Len(relay'[s][d].dst) > Len(relay[s][d].dst))
                      => (pc[s] = "relay" /\ pc'[s] = "relay")]_vars

\* C23 witness: the client closed and its direction returned while the other
\* direction had written one byte of a chunk of two: the session ended with
\* the second byte read and not written.
C23_Witness ==
    /\ lastExit.at = "relay"
    /\ lastExit.ended = "c2t"
    /\ lastExit.how = "returned_ok"
    /\ lastExit.read["t2c"] = 2
    /\ lastExit.written["t2c"] = 1
    /\ pc[lastExit.session] = "done"

\* C24: the result of handle_connection is an error exactly when permit
\* acquisition, the client handshake, the upstream connect or the upstream
\* handshake fails; once the relay has started, an I/O error in either
\* direction is only logged and handle_connection returns success.  A task
\* that returns from one of its awaits before the relay returns Err, a task
\* that returns from the relay returns Ok(()) however its direction ended,
\* and a task dropped with the runtime returns nothing.  (acquire fails only
\* on a closed semaphore, and nothing closes connection_limit: a task leaves
\* its acquire with the permit, or is dropped.)
BeforeRelay == {"start", "waiting", "tls_accept", "tcp_connect", "tls_tcp", "tls_hs"}

C24_ErrorOnlyBeforeRelay ==
    /\ [](lastExit.session # 0 =>
             /\ lastExit.result \in {"Ok", "Io", "Aborted"}
             /\ lastExit.result = "Io" <=>
                   (lastExit.at \in BeforeRelay /\ lastExit.result # "Aborted")
             /\ lastExit.result = "Ok" <=>
                   (lastExit.at = "relay" /\ lastExit.result # "Aborted")
             /\ lastExit.how \in {"returned_ok", "returned_err"} =>
                   (lastExit.at = "relay" /\ lastExit.result = "Ok"
                      /\ lastExit.ended \in Dirs))
    /\ [][\A s \in Sessions :
             (pc[s] # "done" /\ pc'[s] = "done") =>
                /\ lastExit'.session = s
                /\ lastExit'.at = pc[s]
                /\ lastExit'.result = "Aborted" => listener = "returned"
                /\ pc[s] \in {"start", "waiting"} => lastExit'.result = "Aborted"
                /\ (pc[s] \in BeforeRelay /\ lastExit'.result # "Aborted")
                      => lastExit'.result = "Io"
                /\ (pc[s] = "relay" /\ lastExit'.result # "Aborted")
                      => lastExit'.result = "Ok"]_vars

\* C24 witness: a write or a read of the relay failed after bytes had been
\* relayed, and handle_connection returned Ok(()).
C24_Witness ==
    /\ lastExit.at = "relay"
    /\ lastExit.how = "returned_err"
    /\ lastExit.result = "Ok"
    /\ \E d \in Dirs : lastExit.written[d] > 0
    /\ listener = "listening"

====
